---- MODULE Spec2Model ----
(***************************************************************************)
(* A model of finance_manager.py: the Expense value object, the CSV store  *)
(* (FileManager), the report functions (ReportGenerator) and the menu      *)
(* handlers of FinanceManagerUI that change or read the collection.        *)
(*                                                                         *)
(* Text is modelled as TLA+ strings (sequences of characters), files as    *)
(* their bytes, and Python floats as IEEE-754 binary64 values: a mantissa  *)
(* of 53 bits and the exponent of its last bit.                            *)
(***************************************************************************)
EXTENDS Integers, Sequences, FiniteSets, TLC

VARIABLES expenses, primary, backups, clock, last

vars == <<expenses, primary, backups, clock, last>>

(***************************************************************************)
(* Bounds of the model.                                                    *)
(***************************************************************************)
\* longest collection add_expense may build
MaxLen == 3
\* last second of the wall clock, which names the backups
MaxClock == 1
\* longest collection of a run that starts from a file and makes backups
MaxBackupLen == 1
\* data rows of a file found on disk when the program starts
MaxRows == 2
\* longest collection the reports are asked about
MaxReportLen == 3
\* |n| of the n asked of get_top_expenses
MaxN == 2

(***************************************************************************)
(* Characters and strings (str methods used by the program).               *)
(***************************************************************************)
Char(s, i) == SubSeq(s, i, i)

\* the characters the model's texts are made of, in code point order
Ascii == " \"+,-.0123456789ABCDEFGHIJKLMNOPQRSTUVWXYZabcdefghijklmnopqrstuvwxyz"

Digits == "0123456789"

UpperCase == "ABCDEFGHIJKLMNOPQRSTUVWXYZ"

LowerCase == "abcdefghijklmnopqrstuvwxyz"

\* position of character c in string s, 0 when absent
Least(S) == CHOOSE i \in S : \A j \in S : i <= j

First(hits) == IF hits = {} THEN 0 ELSE Least(hits)

IndexOf(c, s) == First({i \in 1..Len(s) : Char(s, i) = c})

\* ord(c)
Ord(c) == IndexOf(c, Ascii)

IsDigit(c) == IndexOf(c, Digits) > 0

DigitVal(c) == IndexOf(c, Digits) - 1

IsUpper(c) == IndexOf(c, UpperCase) > 0

IsLower(c) == IndexOf(c, LowerCase) > 0

IsSpace(c) == c \in {" ", "\t", "\r", "\n"}

ToUpper(c) == IF IsLower(c) THEN Char(UpperCase, IndexOf(c, LowerCase)) ELSE c

ToLower(c) == IF IsUpper(c) THEN Char(LowerCase, IndexOf(c, UpperCase)) ELSE c

\* s from its first character that is no whitespace on
LStrip(s) ==
    SubSeq(s, First({i \in 1..(Len(s) + 1) : i > Len(s) \/ ~IsSpace(Char(s, i))}),
           Len(s))

\* s up to its last character that is no whitespace
RStrip(s) ==
    SubSeq(s, 1, Len(s) - Cardinality({i \in 1..Len(s) :
                     \A j \in i..Len(s) : IsSpace(Char(s, j))}))

\* str.strip()
Strip(s) == RStrip(LStrip(s))

\* str.title(): a cased character is upper-cased after an uncased one (or at
\* the start) and lower-cased after a cased one
RECURSIVE TitleFrom(_, _, _)
TitleFrom(s, i, prevCased) ==
    IF i > Len(s) THEN ""
    ELSE LET c == Char(s, i)
             cased == IsUpper(c) \/ IsLower(c)
         IN  (IF prevCased THEN ToLower(c) ELSE ToUpper(c))
                 \o TitleFrom(s, i + 1, cased)

Title(s) == TitleFrom(s, 1, FALSE)

\* str.lower()
RECURSIVE LowerFrom(_, _)
LowerFrom(s, i) ==
    IF i > Len(s) THEN "" ELSE ToLower(Char(s, i)) \o LowerFrom(s, i + 1)

Lower(s) == LowerFrom(s, 1)

\* s < t for str: the first differing code point decides, a proper prefix is
\* smaller
LessAt(s, t, i) ==
    IF i = 0 THEN Len(s) < Len(t) ELSE Ord(Char(s, i)) < Ord(Char(t, i))

StrLess(s, t) ==
    LessAt(s, t, First({i \in 1..Len(s) : i <= Len(t) /\ Char(s, i) # Char(t, i)}))

\* s <= t for str
StrLeq(s, t) == s = t \/ StrLess(s, t)

\* sub in s
Contains(s, sub) ==
    \E i \in 1..(Len(s) - Len(sub) + 1) : SubSeq(s, i, i + Len(sub) - 1) = sub

(***************************************************************************)
(* Natural numbers beyond 32 bits (a mantissa has 53): the sequence of     *)
(* their digits in base 2^14, least significant first, no leading zero     *)
(* digit (<<>> is 0).                                                      *)
(***************************************************************************)
LimbBits == 14

Base == 2^LimbBits

Zeros(n) == [i \in 1..n |-> 0]

\* a without its leading zero digits
Trim(a) ==
    LET nz == {i \in 1..Len(a) : a[i] # 0}
    IN  IF nz = {} THEN <<>>
        ELSE SubSeq(a, 1, CHOOSE i \in nz : \A j \in nz : j <= i)

\* an integer 0 <= n < 2^31
FromInt(n) == Trim(<<n % Base, (n \div Base) % Base, n \div (Base * Base)>>)

\* a value below 2^31
ToInt(a) ==
    (IF Len(a) >= 1 THEN a[1] ELSE 0)
    + (IF Len(a) >= 2 THEN a[2] * Base ELSE 0)
    + (IF Len(a) >= 3 THEN a[3] * Base * Base ELSE 0)

\* number of bits of an integer below 2^31
IntBits(n) == Cardinality({k \in 0..30 : 2^k <= n})

BitLen(a) ==
    IF Len(a) = 0 THEN 0 ELSE LimbBits * (Len(a) - 1) + IntBits(a[Len(a)])

IsOdd(a) == Len(a) > 0 /\ a[1] % 2 = 1

\* digits i.. of a + b, entered with carry c
RECURSIVE AddFrom(_, _, _, _)
AddFrom(a, b, i, c) ==
    IF i > Len(a) /\ i > Len(b) THEN (IF c = 0 THEN <<>> ELSE <<c>>)
    ELSE LET t == (IF i <= Len(a) THEN a[i] ELSE 0)
                  + (IF i <= Len(b) THEN b[i] ELSE 0) + c
         IN  <<t % Base>> \o AddFrom(a, b, i + 1, t \div Base)

AddNat(a, b) == AddFrom(a, b, 1, 0)

\* digits i.. of a * m (0 < m < 2^16), entered with carry c
RECURSIVE MulFrom(_, _, _, _)
MulFrom(a, m, i, c) ==
    IF i > Len(a) THEN (IF c = 0 THEN <<>> ELSE <<c>>)
    ELSE LET t == a[i] * m + c
         IN  <<t % Base>> \o MulFrom(a, m, i + 1, t \div Base)

MulSmall(a, m) == MulFrom(a, m, 1, 0)

\* digits 1..i of a divided by d (0 < d < 2^16), entered from above with
\* remainder r: the quotient's digits 1..i and the remainder
RECURSIVE DivFrom(_, _, _, _)
DivFrom(a, d, i, r) ==
    IF i = 0 THEN [q |-> <<>>, r |-> r]
    ELSE LET cur == r * Base + a[i]
             rest == DivFrom(a, d, i - 1, cur % d)
         IN  [q |-> Append(rest.q, cur \div d), r |-> rest.r]

TrimQuotient(res) == [q |-> Trim(res.q), r |-> res.r]

DivSmall(a, d) == TrimQuotient(DivFrom(a, d, Len(a), 0))

\* a * 2^k
ShiftLeft(a, k) ==
    IF Len(a) = 0 THEN <<>>
    ELSE Zeros(k \div LimbBits) \o MulSmall(a, 2^(k % LimbBits))

\* res.q, and whether res.r or one of the digits 1..w of a is not 0
WithLost(res, a, w) ==
    [q |-> res.q, lost |-> res.r # 0 \/ \E i \in 1..w : i <= Len(a) /\ a[i] # 0]

\* a \div 2^k, and whether bits were lost
ShiftRight(a, k) ==
    WithLost(DivSmall(SubSeq(a, (k \div LimbBits) + 1, Len(a)), 2^(k % LimbBits)),
             a, k \div LimbBits)

(***************************************************************************)
(* binary64 arithmetic.  A nonzero float is [m |-> mantissa, a natural of  *)
(* 53 bits, e |-> exponent of its last bit], its value m * 2^e; zero is    *)
(* FZero.  Every operation rounds to nearest, ties to even.                *)
(***************************************************************************)
MantBits == 53

FZero == [m |-> <<>>, e |-> 0]

\* [m, e] with a mantissa of 54 bits brought back to 53
Normal(m, e) ==
    IF BitLen(m) > MantBits THEN [m |-> ShiftRight(m, 1).q, e |-> e + 1]
    ELSE [m |-> m, e |-> e]

\* keep * 2^e rounded up by one unit when the bits cut off were more than
\* half a unit, or half a unit (half and no more) and keep is odd
RoundUp(keep, half, more, e) ==
    Normal(IF half /\ (more \/ IsOdd(keep)) THEN AddNat(keep, <<1>>) ELSE keep, e)

\* t holds one bit more than the mantissa: that bit is the half unit
RoundCut(t, e, sticky) ==
    RoundUp(ShiftRight(t.q, 1).q, IsOdd(t.q), sticky \/ t.lost, e)

\* the float nearest to q * 2^e + (a positive rest below 2^e when sticky),
\* q > 0
RoundNat(q, e, sticky) ==
    IF BitLen(q) <= MantBits
    THEN [m |-> ShiftLeft(q, MantBits - BitLen(q)),
          e |-> e - (MantBits - BitLen(q))]
    ELSE RoundCut(ShiftRight(q, BitLen(q) - MantBits - 1),
                  e + (BitLen(q) - MantBits), sticky)

\* float + float
FAdd(x, y) ==
    IF x = FZero THEN y
    ELSE IF y = FZero THEN x
    ELSE LET e == IF x.e < y.e THEN x.e ELSE y.e
         IN  RoundNat(AddNat(ShiftLeft(x.m, x.e - e), ShiftLeft(y.m, y.e - e)),
                      e, FALSE)

\* the float nearest to (res.q + res.r / d) * 2^e
RoundQuotient(res, e) == RoundNat(res.q, e, res.r # 0)

\* the float nearest to a * 2^e / d, a > 0 and 0 < d < 2^16: the quotient is
\* taken to 55 bits or more before it is rounded
DivNat(a, d, e) ==
    RoundQuotient(DivSmall(ShiftLeft(a, MantBits + 2 + IntBits(d)), d),
                  e - (MantBits + 2 + IntBits(d)))

\* the float nearest to n / d (integers 0 <= n < 2^31, 0 < d < 2^16): float()
\* of the decimal literal of n/d
NearestDouble(n, d) == IF n = 0 THEN FZero ELSE DivNat(FromInt(n), d, 0)

\* float / int
FDivInt(x, n) == IF x = FZero THEN FZero ELSE DivNat(x.m, n, x.e)

\* ip, or ip + 1 when the fraction cut off was more than a half, or a half
\* and ip is odd
RoundInt(ip, half, more) ==
    IF half /\ (more \/ ip % 2 = 1) THEN ip + 1 ELSE ip

\* t is twice a number, bits below lost: the number rounded to an integer
RoundHalfEven(t) == RoundInt(ToInt(ShiftRight(t.q, 1).q), IsOdd(t.q), t.lost)

\* round(x, 2) of a float 0 <= x < 2^24, as the number c of hundredths of the
\* result (the result is the float nearest to c/100): x * 100 is taken
\* exactly and rounded to an integer, ties to even
Round2(x) ==
    IF x = FZero THEN 0
    ELSE RoundHalfEven(ShiftRight(MulSmall(x.m, 100), (0 - x.e) - 1))

(***************************************************************************)
(* class Expense.  A value that may be None (a field a short CSV row does  *)
(* not have) is <<>> for None and <<s>> for the string s.                  *)
(***************************************************************************)
None == <<>>

Some(s) == <<s>>

CATEGORIES ==
    <<"Food", "Transport", "Entertainment", "Shopping", "Utilities",
      "Healthcare", "Education", "Other">>

AllDigits(s) == \A i \in 1..Len(s) : IsDigit(Char(s, i))

RECURSIVE DigitsToInt(_)
DigitsToInt(s) ==
    IF Len(s) = 0 THEN 0
    ELSE 10 * DigitsToInt(SubSeq(s, 1, Len(s) - 1)) + DigitVal(Char(s, Len(s)))

RECURSIVE Pow10(_)
Pow10(n) == IF n = 0 THEN 1 ELSE 10 * Pow10(n - 1)

RECURSIVE IntToStr(_)
IntToStr(n) ==
    IF n < 10 THEN Char(Digits, n + 1)
    ELSE IntToStr(n \div 10) \o Char(Digits, (n % 10) + 1)

\* the float of a sign and the digits before and after the point
ParseParts(neg, ip, fp) ==
    IF AllDigits(ip) /\ AllDigits(fp) /\ Len(ip) + Len(fp) >= 1
    THEN [ok |-> TRUE, neg |-> neg,
          val |-> NearestDouble(DigitsToInt(ip \o fp), Pow10(Len(fp)))]
    ELSE [ok |-> FALSE]

\* body is the literal after its sign, dot the place of its point (0: none)
ParseBody(neg, body, dot) ==
    ParseParts(neg,
               IF dot = 0 THEN body ELSE SubSeq(body, 1, dot - 1),
               IF dot = 0 THEN "" ELSE SubSeq(body, dot + 1, Len(body)))

ParseSigned(s, signed) ==
    ParseBody(signed /\ Char(s, 1) = "-",
              IF signed THEN Tail(s) ELSE s,
              IndexOf(".", IF signed THEN Tail(s) ELSE s))

\* float(text) for a decimal literal: surrounding whitespace, an optional
\* sign, digits with an optional point.  The value is (-)num/den, rounded to
\* the nearest float.  (The texts of the model hold no exponent, underscore,
\* "inf" or "nan", the other forms float() reads.)
ParseFloat(text) ==
    ParseSigned(Strip(text),
                Len(Strip(text)) > 0 /\ Char(Strip(text), 1) \in {"+", "-"})

\* amt <= 0 raises, round(amt, 2) is returned: the amount as the number c
\* of hundredths of the result (the float nearest to c/100)
Positive(p) ==
    IF ~p.ok THEN [ok |-> FALSE]
    ELSE IF p.neg \/ p.val = FZero THEN [ok |-> FALSE]
    ELSE [ok |-> TRUE, amount |-> Round2(p.val)]

\* Expense._validate_amount
ValidateAmount(amount) ==
    IF amount = None THEN [ok |-> FALSE] ELSE Positive(ParseFloat(amount[1]))

InCategories(cat) ==
    IF \E i \in 1..Len(CATEGORIES) : CATEGORIES[i] = cat
    THEN [ok |-> TRUE, category |-> cat]
    ELSE [ok |-> FALSE]

\* Expense._validate_category, called with a str
ValidateCategory(category) == InCategories(Title(Strip(category)))

IsLeap(y) == (y % 4 = 0 /\ y % 100 # 0) \/ y % 400 = 0

DaysInMonth(y, m) ==
    IF m = 2 THEN (IF IsLeap(y) THEN 29 ELSE 28)
    ELSE IF m \in {4, 6, 9, 11} THEN 30
    ELSE 31

\* %m of strptime: 1[0-2]|0[1-9]|[1-9]
MonthText(t) ==
    \/ Len(t) = 1 /\ IsDigit(t) /\ t # "0"
    \/ Len(t) = 2 /\ AllDigits(t) /\ DigitsToInt(t) \in 1..12

\* %d of strptime: 3[01]|[12]\d|0[1-9]|[1-9]| [1-9]
DayText(t) ==
    \/ Len(t) = 1 /\ IsDigit(t) /\ t # "0"
    \/ Len(t) = 2 /\ AllDigits(t) /\ DigitsToInt(t) \in 1..31
    \/ Len(t) = 2 /\ Char(t, 1) = " " /\ IsDigit(Char(t, 2)) /\ Char(t, 2) # "0"

\* datetime.strptime(date, '%Y-%m-%d'): the whole text must match
\* \d\d\d\d-(month)-(day) and name a day of the calendar
Strptime(date) ==
    LET rest == SubSeq(date, 6, Len(date))
        dash == IndexOf("-", rest)
        mt == SubSeq(rest, 1, dash - 1)
        dt == SubSeq(rest, dash + 1, Len(rest))
        y == DigitsToInt(SubSeq(date, 1, 4))
        m == DigitsToInt(mt)
        d == DigitsToInt(LStrip(dt))
    IN  IF /\ Len(date) >= 8
           /\ AllDigits(SubSeq(date, 1, 4))
           /\ Char(date, 5) = "-"
           /\ dash > 0
           /\ MonthText(mt)
           /\ DayText(dt)
           /\ y >= 1
           /\ d <= DaysInMonth(y, m)
        THEN [ok |-> TRUE, year |-> y, month |-> m, day |-> d]
        ELSE [ok |-> FALSE]

\* Expense._validate_date, called with a str: the text itself is kept
ValidateDate(date) ==
    IF Strptime(date).ok THEN [ok |-> TRUE, date |-> date] ELSE [ok |-> FALSE]

\* Expense.__init__ with the outcomes a, c, d of the three validations, in
\* the order the constructor runs them.  kind is "ok", or the exception that
\* leaves the constructor: category.strip() and description.strip() raise
\* AttributeError on None, strptime raises TypeError on None.
Construct(a, c, d, category, date, description) ==
    IF ~a.ok THEN [kind |-> "ValueError"]
    ELSE IF category = None THEN [kind |-> "AttributeError"]
    ELSE IF ~c.ok THEN [kind |-> "ValueError"]
    ELSE IF date = None THEN [kind |-> "TypeError"]
    ELSE IF ~d.ok THEN [kind |-> "ValueError"]
    ELSE IF description = None THEN [kind |-> "AttributeError"]
    ELSE [kind |-> "ok",
          exp |-> [amount |-> a.amount, category |-> c.category,
                   date |-> d.date, description |-> Strip(description[1])]]

\* Expense(amount, category, date, description)
NewExpense(amount, category, date, description) ==
    Construct(ValidateAmount(amount),
              IF category = None THEN [ok |-> FALSE]
              ELSE ValidateCategory(category[1]),
              IF date = None THEN [ok |-> FALSE] ELSE ValidateDate(date[1]),
              category, date, description)

\* str(expense.amount), as csv.writer writes a float: repr of the float
\* nearest to c/100 is the shortest decimal that reads back as it
FormatFloat(c) ==
    IntToStr(c \div 100) \o "." \o
        (IF c % 10 = 0 THEN IntToStr((c % 100) \div 10)
         ELSE IntToStr((c % 100) \div 10) \o IntToStr(c % 10))

(***************************************************************************)
(* The csv module, excel dialect: csv.writer, csv.reader, csv.DictReader.  *)
(***************************************************************************)
HEADER == <<"Date", "Category", "Amount", "Description">>

\* characters i..j of a field, each quote character doubled
RECURSIVE DoubleQuotes(_, _, _)
DoubleQuotes(f, i, j) ==
    IF i > j THEN ""
    ELSE IF i = j THEN (IF Char(f, i) = "\"" THEN "\"\"" ELSE Char(f, i))
    ELSE DoubleQuotes(f, i, (i + j) \div 2) \o DoubleQuotes(f, (i + j) \div 2 + 1, j)

\* QUOTE_MINIMAL: a field holding the delimiter, the quote character or a
\* character of the line terminator is quoted
QuoteField(f) ==
    IF \E i \in 1..Len(f) : Char(f, i) \in {",", "\"", "\r", "\n"}
    THEN "\"" \o DoubleQuotes(f, 1, Len(f)) \o "\""
    ELSE f

\* writer.writerow of four fields
WriteRow(fields) ==
    QuoteField(fields[1]) \o "," \o QuoteField(fields[2]) \o "," \o
    QuoteField(fields[3]) \o "," \o QuoteField(fields[4]) \o "\r\n"

\* the reader's parser: mode, the field and the record being read, and the
\* records read
ReaderStart == [mode |-> "START_RECORD", field |-> "", row |-> <<>>, rows |-> <<>>]

SaveField(st, mode) ==
    [st EXCEPT !.mode = mode, !.field = "", !.row = Append(st.row, st.field)]

AddChar(st, c, mode) == [st EXCEPT !.mode = mode, !.field = st.field \o c]

\* parse_process_char for one character of a line
ReaderChar(st, c) ==
    LET newline == c \in {"\r", "\n"}
        mode == IF st.mode = "START_RECORD" /\ ~newline THEN "START_FIELD"
                ELSE st.mode
    IN  CASE mode = "START_RECORD" -> [st EXCEPT !.mode = "EAT_CRNL"]
          [] mode = "START_FIELD" ->
                IF newline THEN SaveField(st, "EAT_CRNL")
                ELSE IF c = "\"" THEN [st EXCEPT !.mode = "IN_QUOTED_FIELD"]
                ELSE IF c = "," THEN SaveField(st, "START_FIELD")
                ELSE AddChar(st, c, "IN_FIELD")
          [] mode = "IN_FIELD" ->
                IF newline THEN SaveField(st, "EAT_CRNL")
                ELSE IF c = "," THEN SaveField(st, "START_FIELD")
                ELSE AddChar(st, c, "IN_FIELD")
          [] mode = "IN_QUOTED_FIELD" ->
                IF c = "\"" THEN [st EXCEPT !.mode = "QUOTE_IN_QUOTED_FIELD"]
                ELSE AddChar(st, c, "IN_QUOTED_FIELD")
          [] mode = "QUOTE_IN_QUOTED_FIELD" ->
                IF c = "\"" THEN AddChar(st, c, "IN_QUOTED_FIELD")
                ELSE IF c = "," THEN SaveField(st, "START_FIELD")
                ELSE IF newline THEN SaveField(st, "EAT_CRNL")
                ELSE AddChar(st, c, "IN_FIELD")
          [] mode = "EAT_CRNL" ->
                IF newline THEN st ELSE [st EXCEPT !.mode = "ERROR"]
          [] OTHER -> st

\* the record is complete: it joins the records read
EndRecord(st) ==
    [mode |-> "START_RECORD", field |-> "", row |-> <<>>,
     rows |-> Append(st.rows, st.row)]

\* parse_process_char at the end of a line
ReaderEol(st) ==
    CASE st.mode \in {"START_RECORD", "EAT_CRNL"} -> EndRecord(st)
      [] st.mode \in {"START_FIELD", "IN_FIELD", "QUOTE_IN_QUOTED_FIELD"} ->
            EndRecord(SaveField(st, "START_RECORD"))
      [] OTHER -> st

\* a line of a file opened with newline='' ends after "\n", after a "\r" that
\* no "\n" follows, and at the end of the file
LineEndsAt(text, i) ==
    \/ i = Len(text)
    \/ Char(text, i) = "\n"
    \/ Char(text, i) = "\r" /\ Char(text, i + 1) # "\n"

ReaderFeed(text, i, st) ==
    LET next == ReaderChar(st, Char(text, i))
    IN  IF LineEndsAt(text, i) THEN ReaderEol(next) ELSE next

\* the parser over characters i..j of the text
RECURSIVE ReaderRange(_, _, _, _)
ReaderRange(text, i, j, st) ==
    IF i > j THEN st
    ELSE IF i = j THEN ReaderFeed(text, i, st)
    ELSE LET left == ReaderRange(text, i, (i + j) \div 2, st)
         IN  IF left.mode = "ERROR" THEN left
             ELSE ReaderRange(text, (i + j) \div 2 + 1, j, left)

\* at the end of the file a record left open inside a quoted field is
\* returned as it stands
ReaderEnd(st) ==
    IF st.mode = "IN_QUOTED_FIELD" THEN Append(st.rows, Append(st.row, st.field))
    ELSE st.rows

\* list(csv.reader(file))
ReadRows(text) == ReaderEnd(ReaderRange(text, 1, Len(text), ReaderStart))

\* row[key] of a DictReader row: dict(zip(fieldnames, row)), then None for
\* the names a short row has no field for.  <<>> is None, <<s>> the string s.
DictGet(names, row, key) ==
    LET at == {i \in 1..Len(names) : names[i] = key}
        filled == {i \in at : i <= Len(row)}
    IN  IF at = {} THEN [found |-> FALSE]
        ELSE IF \E i \in at : i > Len(row) THEN [found |-> TRUE, val |-> <<>>]
        ELSE [found |-> TRUE,
              val |-> <<row[CHOOSE i \in filled : \A j \in filled : j <= i]>>]

(***************************************************************************)
(* FileManager.  The primary file is None (<<>>) when it does not exist and *)
(* <<bytes>> when it does; the backup directory maps file names to bytes.   *)
(* An operation that touches the disk takes the outcome of its I/O as a     *)
(* parameter and returns what it returns and what it leaves on the disk.    *)
(***************************************************************************)
\* the lines save_expenses writes for expenses i..Len(expenses)
RECURSIVE RowsFrom(_, _)
RowsFrom(exps, i) ==
    IF i > Len(exps) THEN <<>>
    ELSE <<WriteRow(<<exps[i].date, exps[i].category,
                      FormatFloat(exps[i].amount), exps[i].description>>)>>
         \o RowsFrom(exps, i + 1)

FileLines(exps) == <<WriteRow(HEADER)>> \o RowsFrom(exps, 1)

RECURSIVE Concat(_, _)
Concat(lines, n) == IF n = 0 THEN "" ELSE Concat(lines, n - 1) \o lines[n]

\* the outcomes of the I/O of save_expenses for n expenses: no failure,
\* open() raises, or a write raises after `done` whole lines reached the file
SaveIo(n) ==
    {[at |-> "none", done |-> n + 1], [at |-> "open", done |-> 0]}
        \cup {[at |-> "write", done |-> k] : k \in 0..n}

\* FileManager.save_expenses
save_expenses(exps, file, io) ==
    IF io.at = "open" THEN [ok |-> FALSE, file |-> file]
    ELSE [ok |-> io.at = "none", file |-> Some(Concat(FileLines(exps), io.done))]

\* Expense(amount=row['Amount'], ...) of the four values looked up in a row;
\* a name the header does not hold raises KeyError
RowFields(amount, category, date, description) ==
    IF ~(amount.found /\ category.found /\ date.found /\ description.found)
    THEN [kind |-> "KeyError"]
    ELSE NewExpense(amount.val, category.val, date.val, description.val)

RowExpense(names, row) ==
    RowFields(DictGet(names, row, "Amount"), DictGet(names, row, "Category"),
              DictGet(names, row, "Date"), DictGet(names, row, "Description"))

\* the loop of load_expenses from row i on, e what row i gave: DictReader
\* passes over a blank row, a row the constructor rejects with ValueError is
\* skipped, any other exception ends the loop
RECURSIVE LoadRows(_, _, _, _)
LoadNext(names, rows, i, acc, e) ==
    IF e.kind = "ok" THEN LoadRows(names, rows, i + 1, Append(acc, e.exp))
    ELSE IF e.kind \in {"blank", "ValueError"} THEN LoadRows(names, rows, i + 1, acc)
    ELSE acc

LoadRows(names, rows, i, acc) ==
    IF i > Len(rows) THEN acc
    ELSE LoadNext(names, rows, i, acc,
                  IF rows[i] = <<>> THEN [kind |-> "blank"]
                  ELSE RowExpense(names, rows[i]))

\* the rows of the file: the first holds the field names
LoadRecords(rows) ==
    IF rows = <<>> THEN <<>> ELSE LoadRows(rows[1], rows, 2, <<>>)

\* FileManager.load_expenses
load_expenses(file) ==
    IF file = None THEN <<>> ELSE LoadRecords(ReadRows(file[1]))

Pad2(n) == IntToStr(n \div 10) \o IntToStr(n % 10)

\* datetime.now() at second t of the day the runs happen on
Today == "2024-01-01"

\* strftime('%Y%m%d_%H%M%S')
Timestamp(t) ==
    "20240101_" \o Pad2(t \div 3600) \o Pad2((t \div 60) % 60) \o Pad2(t % 60)

BackupName(t) == "expenses_backup_" \o Timestamp(t) \o ".csv"

\* the outcomes of shutil.copy2: no failure, the destination cannot be
\* opened, or the copy stops after the destination was created
CopyIo == {"none", "open", "write"}

Put(dir, name, bytes) ==
    [n \in DOMAIN dir \cup {name} |-> IF n = name THEN bytes ELSE dir[n]]

\* a backup_data that creates the backup file and copies nothing into it
BackupEmpty(file, dir, t, io) ==
    IF file = None THEN [ok |-> FALSE, dir |-> dir]
    ELSE IF io = "open" THEN [ok |-> FALSE, dir |-> dir]
    ELSE [ok |-> io = "none", dir |-> Put(dir, BackupName(t), "")]

\* FileManager.backup_data at second t
backup_data(file, dir, t, io) ==
    IF file = None THEN [ok |-> FALSE, dir |-> dir]
    ELSE IF io = "open" THEN [ok |-> FALSE, dir |-> dir]
    ELSE IF io = "write" THEN [ok |-> FALSE, dir |-> Put(dir, BackupName(t), "")]
    ELSE [ok |-> TRUE, dir |-> Put(dir, BackupName(t), file[1])]

\* a restore_from_backup that does not look for the backup first: the copy
\* fails after it has opened the primary file for writing
RestoreUnchecked(backup_filename, file, dir, io) ==
    IF backup_filename \notin DOMAIN dir /\ io = "open" THEN [ok |-> FALSE, file |-> file]
    ELSE IF backup_filename \notin DOMAIN dir THEN [ok |-> FALSE, file |-> Some("")]
    ELSE IF io = "open" THEN [ok |-> FALSE, file |-> file]
    ELSE IF io = "write" THEN [ok |-> FALSE, file |-> Some("")]
    ELSE [ok |-> TRUE, file |-> Some(dir[backup_filename])]

\* FileManager.restore_from_backup
restore_from_backup(backup_filename, file, dir, io) ==
    IF backup_filename \notin DOMAIN dir THEN [ok |-> FALSE, file |-> file]
    ELSE IF io = "open" THEN [ok |-> FALSE, file |-> file]
    ELSE IF io = "write" THEN [ok |-> FALSE, file |-> Some("")]
    ELSE [ok |-> TRUE, file |-> Some(dir[backup_filename])]

StartsWith(s, prefix) == Len(s) >= Len(prefix) /\ SubSeq(s, 1, Len(prefix)) = prefix

\* FileManager.list_backups: the backup names, greatest first
list_backups(dir) ==
    LET names == {n \in DOMAIN dir : StartsWith(n, "expenses_backup_")}
    IN  [p \in 1..Cardinality(names) |->
            CHOOSE n \in names :
                Cardinality({m \in names : StrLess(n, m)}) = p - 1]

(***************************************************************************)
(* ReportGenerator.                                                        *)
(***************************************************************************)
\* expense.amount as the float it is
Amount(e) == NearestDouble(e.amount, 100)

\* acc + the amounts of the expenses from i on, added in order
RECURSIVE SumFrom(_, _, _)
SumFrom(exps, i, acc) ==
    IF i > Len(exps) THEN acc
    ELSE SumFrom(exps, i + 1, FAdd(acc, Amount(exps[i])))

\* the summary of a collection that is not empty, total its total
Summarise(exps, total) ==
    [total |-> total,
     count |-> Len(exps),
     average |-> FDivInt(total, Len(exps)),
     categories |->
         [c \in {exps[i].category : i \in 1..Len(exps)} |->
             LET InCategory(e) == e.category = c
             IN  SumFrom(SelectSeq(exps, InCategory), 1, FZero)]]

\* ReportGenerator.generate_summary
generate_summary(exps) ==
    IF exps = <<>>
    THEN [total |-> FZero, count |-> 0, average |-> FZero, categories |-> <<>>]
    ELSE Summarise(exps, SumFrom(exps, 1, FZero))

\* ReportGenerator.generate_monthly_report
generate_monthly_report(exps, year, month) ==
    LET InMonth(e) == Strptime(e.date).year = year /\ Strptime(e.date).month = month
    IN  generate_summary(SelectSeq(exps, InMonth))

\* sorted(s, key=..., reverse=True) for a list s of n elements, as the
\* positions of s in the order of the result: greater keys first, equal keys
\* in their order in s.  greater[j, i]: the key of s[j] is above that of s[i].
SortedReverse(n, greater) ==
    LET Place(i) ==
            1 + Cardinality({j \in 1..n : greater[j, i]})
              + Cardinality({j \in 1..(i - 1) : ~greater[j, i] /\ ~greater[i, j]})
    IN  [p \in 1..n |-> CHOOSE i \in 1..n : Place(i) = p]

\* s[:n] of Python
Slice(s, n) ==
    IF n >= 0 THEN SubSeq(s, 1, IF n < Len(s) THEN n ELSE Len(s))
    ELSE SubSeq(s, 1, Len(s) + n)

\* a get_top_expenses whose sort puts equal amounts in the reverse of their
\* order in the collection
TopTiesReversed(exps, n) ==
    LET order == SortedReverse(Len(exps),
                     [j \in 1..Len(exps), i \in 1..Len(exps) |->
                         \/ exps[j].amount > exps[i].amount
                         \/ exps[j].amount = exps[i].amount /\ j > i])
    IN  Slice([p \in 1..Len(exps) |-> exps[order[p]]], n)

\* ReportGenerator.get_top_expenses
get_top_expenses(exps, n) ==
    LET order == SortedReverse(Len(exps),
                     [j \in 1..Len(exps), i \in 1..Len(exps) |->
                         exps[j].amount > exps[i].amount])
    IN  Slice([p \in 1..Len(exps) |-> exps[order[p]]], n)

\* ReportGenerator.search_expenses
search_expenses(exps, keyword, category, start_date, end_date) ==
    LET Match(e) ==
            /\ keyword # "" => Contains(Lower(e.description), Lower(keyword))
            /\ category # "" => e.category = category
            /\ start_date # "" => StrLeq(start_date, e.date)
            /\ end_date # "" => StrLeq(e.date, end_date)
    IN  SelectSeq(exps, Match)

(***************************************************************************)
(* FinanceManagerUI: the handlers as functions of the collection, the file  *)
(* and what the user types; `printed` holds the messages that tell how the  *)
(* operation went.                                                         *)
(***************************************************************************)
\* list.remove for a class that compares by value: the first element equal
\* to the one at position k goes
RemoveFirstEqual(exps, k) ==
    [i \in 1..(Len(exps) - 1) |->
        IF i < Least({j \in 1..Len(exps) : exps[j] = exps[k]}) THEN exps[i]
        ELSE exps[i + 1]]

\* self.expenses.remove(x) for the object x at position k.  Expense defines
\* no __eq__, so an element equals x only if it is x: position k goes.
ListRemove(exps, k) == SubSeq(exps, 1, k - 1) \o SubSeq(exps, k + 1, Len(exps))

SaveMessage(ok) == IF ok THEN <<>> ELSE <<"Error saving expenses">>

\* the collection was changed to `kept` and save_expenses returned s
Changed(kept, s, message) ==
    [expenses |-> kept, file |-> s.file, changed |-> TRUE, saved |-> s.ok,
     printed |-> SaveMessage(s.ok) \o <<message>>]

Unchanged(exps, file, printed) ==
    [expenses |-> exps, file |-> file, changed |-> FALSE, saved |-> FALSE,
     printed |-> printed]

\* add_expense once the constructor has returned e or raised
AddBuilt(exps, file, e, io) ==
    IF e.kind # "ok" THEN Unchanged(exps, file, <<"Error">>)
    ELSE Changed(Append(exps, e.exp),
                 save_expenses(Append(exps, e.exp), file, io),
                 "Expense added successfully!")

\* the date add_expense passes on: the text typed, or today's date
DateTyped(text) == IF text = "" THEN Today ELSE text

\* FinanceManagerUI.add_expense
add_expense(exps, file, amount, category, date, description, io) ==
    AddBuilt(exps, file,
             NewExpense(Some(amount), Some(category),
                        Some(DateTyped(Strip(date))), Some(description)),
             io)

\* sorted(self.expenses, key=lambda x: x.date, reverse=True), as positions
ByDateReverse(exps) ==
    SortedReverse(Len(exps),
                  [j \in 1..Len(exps), i \in 1..Len(exps) |->
                      StrLess(exps[i].date, exps[j].date)])

\* delete_expense once the user has confirmed: position k goes
DeleteAt(exps, file, k, io) ==
    Changed(ListRemove(exps, k), save_expenses(ListRemove(exps, k), file, io),
            "Expense deleted successfully!")

\* FinanceManagerUI.delete_expense
delete_expense(exps, file, choice, confirm, io) ==
    IF exps = <<>> THEN Unchanged(exps, file, <<"No expenses to delete.">>)
    ELSE IF choice = 0 THEN Unchanged(exps, file, <<>>)
    ELSE IF ~(1 <= choice /\ choice <= Len(exps))
    THEN Unchanged(exps, file, <<"Invalid expense number">>)
    ELSE IF Lower(confirm) # "yes"
    THEN Unchanged(exps, file, <<"Deletion cancelled.">>)
    ELSE DeleteAt(exps, file, ByDateReverse(exps)[choice], io)

\* what the user types at the prompts of add_expense
AddInputs ==
    {<<"12.5", " food ", "", " a,b ">>,
     <<"0.004", "Food", "2024-2-15", "say \"hi\"">>,
     <<"abc", "Food", "", "">>,
     <<"-1", "Food", "", "">>,
     <<"0", "Food", "", "">>,
     <<"1", "Rent", "", "">>,
     <<"1", "Food", "2024-13-01", "">>}

\* whether the expense at position k has a structurally equal expense
\* before it in the collection
EqualBefore(exps, k) == \E j \in 1..(k - 1) : exps[j] = exps[k]

\* whether the expense shown at number `choice` has one
LaterDuplicate(exps, choice) ==
    choice \in 1..Len(exps) /\ EqualBefore(exps, ByDateReverse(exps)[choice])

\* the outcomes of the I/O of a handler that saves n expenses, if it saves
IoOf(saves, n) == IF saves THEN SaveIo(n) ELSE {[at |-> "none", done |-> 0]}

Accepted(in) ==
    NewExpense(Some(in[1]), Some(in[2]), Some(DateTyped(Strip(in[3]))),
               Some(in[4])).kind = "ok"

(***************************************************************************)
(* The actions.  `last` records the operation that ran last: its inputs and *)
(* what it returned or printed.                                            *)
(***************************************************************************)
\* FinanceManagerUI.__init__: the program starts and loads the file
Start ==
    /\ expenses' = load_expenses(primary)
    /\ last' = [op |-> "start"]
    /\ UNCHANGED <<primary, backups, clock>>

\* the handler returned r: the collection and the file are as it left them
Handled(r, ran) ==
    /\ expenses' = r.expenses
    /\ primary' = r.file
    /\ last' = ran @@ [changed |-> r.changed, saved |-> r.saved,
                       printed |-> r.printed]

AddExpense ==
    /\ Len(expenses) < MaxLen
    /\ \E in \in AddInputs :
       \E io \in IoOf(Accepted(in), Len(expenses) + 1) :
           Handled(add_expense(expenses, primary, in[1], in[2], in[3], in[4], io),
                   [op |-> "add", amount |-> in[1]])
    /\ UNCHANGED <<backups, clock>>

DeleteExpense ==
    /\ \E choice \in 0..(Len(expenses) + 1), confirm \in {"YES", "no"} :
       \E io \in IoOf(choice \in 1..Len(expenses) /\ confirm = "YES",
                      Len(expenses) - 1) :
           Handled(delete_expense(expenses, primary, choice, confirm, io),
                   [op |-> "delete", choice |-> choice,
                    later |-> LaterDuplicate(expenses, choice)])
    /\ UNCHANGED <<backups, clock>>

\* FinanceManagerUI.backup_data, at a second t the clock has reached
BackupData ==
    /\ \E t \in clock..MaxClock, io \in CopyIo :
           LET r == backup_data(primary, backups, t, io)
           IN  /\ backups' = r.dir
               /\ clock' = t
               /\ last' = [op |-> "backup", ok |-> r.ok, name |-> BackupName(t),
                           file |-> primary]
    /\ UNCHANGED <<expenses, primary>>

\* the name of the backup the operation before made, "" if it made none
JustMade == IF last.op = "backup" /\ last.ok THEN last.name ELSE ""

\* the primary file as it was before the operation before, a backup or not
Before == IF last.op = "backup" THEN last.file ELSE primary

\* FinanceManagerUI.restore_from_backup
RestoreFromBackup ==
    /\ \E choice \in 0..(Cardinality(DOMAIN backups) + 1), io \in CopyIo :
           LET listed == list_backups(backups)
           IN  IF choice \in 1..Len(listed)
               THEN LET r == restore_from_backup(listed[choice], primary, backups, io)
                    IN  /\ primary' = r.file
                        /\ expenses' = IF r.ok THEN load_expenses(r.file)
                                       ELSE expenses
                        /\ last' = [op |-> "restore", called |-> TRUE,
                                    ok |-> r.ok, name |-> listed[choice],
                                    follows |-> JustMade, before |-> Before]
               ELSE /\ UNCHANGED <<primary, expenses>>
                    /\ last' = [op |-> "restore", called |-> FALSE, ok |-> FALSE,
                                name |-> "", follows |-> JustMade, before |-> Before]
    /\ UNCHANGED <<backups, clock>>

\* FileManager.restore_from_backup asked for a name of the caller's: a
\* backup made at some second, or a name no backup has.  The store does not
\* refresh the collection.
StoreRestore ==
    /\ \E name \in {BackupName(t) : t \in 0..MaxClock} \cup {"nonexistent.csv"},
          io \in CopyIo :
           LET r == restore_from_backup(name, primary, backups, io)
           IN  /\ primary' = r.file
               /\ last' = [op |-> "restore", called |-> TRUE, ok |-> r.ok,
                           name |-> name, follows |-> JustMade, before |-> Before]
    /\ UNCHANGED <<expenses, backups, clock>>

\* ReportGenerator.generate_summary, asked about the collection
Summary ==
    /\ last' = [op |-> "summary", result |-> generate_summary(expenses)]
    /\ UNCHANGED <<expenses, primary, backups, clock>>

\* FinanceManagerUI.generate_monthly_report
MonthlyReport ==
    /\ \E year \in {2024}, month \in {2, 13} :
           last' = IF 1 <= month /\ month <= 12
                   THEN [op |-> "monthly", year |-> year, month |-> month,
                         asked |-> TRUE,
                         result |-> generate_monthly_report(expenses, year, month)]
                   ELSE [op |-> "monthly", year |-> year, month |-> month,
                         asked |-> FALSE]
    /\ UNCHANGED <<expenses, primary, backups, clock>>

\* ReportGenerator.get_top_expenses, with the n typed at view_top_expenses
TopExpenses ==
    /\ \E n \in (0 - MaxN)..MaxN :
           last' = [op |-> "top", n |-> n, results |-> get_top_expenses(expenses, n)]
    /\ UNCHANGED <<expenses, primary, backups, clock>>

\* FinanceManagerUI.search_expenses
SearchExpenses ==
    /\ \E keyword \in {"", " LUNCH "}, category \in {"", " food", "rent"},
          dates \in {<<"", "">>, <<"2024-02-01", "2024-02-29">>,
                     <<"2024-02-11", "">>} :
           LET cat == Title(Strip(category))
               known == \E i \in 1..Len(CATEGORIES) : CATEGORIES[i] = cat
               asked == [keyword |-> Strip(keyword),
                         category |-> IF known THEN cat ELSE "",
                         start_date |-> Strip(dates[1]),
                         end_date |-> Strip(dates[2])]
           IN  last' = [op |-> "search"] @@ asked @@
                       [results |-> search_expenses(expenses, asked.keyword,
                                        asked.category, asked.start_date,
                                        asked.end_date)]
    /\ UNCHANGED <<expenses, primary, backups, clock>>

(***************************************************************************)
(* The runs.                                                               *)
(***************************************************************************)
SeqsUpTo(S, n) == UNION {[1..k -> S] : k \in 0..n}

\* the file save_expenses leaves when nothing fails
Saved(exps) == save_expenses(exps, None, [at |-> "none", done |-> Len(exps) + 1]).file

\* the expenses the constructor builds from the inputs it accepts
Built(inputs) ==
    {e.exp : e \in {r \in {NewExpense(Some(in[1]), Some(in[2]), Some(in[3]),
                                      Some(in[4])) : in \in inputs} :
                      r.kind = "ok"}}

EmptyDir == [n \in {} |-> ""]

\* the state FinanceManagerUI.__init__ leaves when it finds `file` on disk
Started(file) ==
    /\ primary = file
    /\ expenses = load_expenses(file)
    /\ backups = EmptyDir
    /\ clock = 0
    /\ last = [op |-> "start"]

\* a first run: no file yet
Init == Started(None)

Next == Start \/ AddExpense \/ DeleteExpense

Spec == Init /\ [][Next]_vars

\* a run that finds a saved file, or none, and makes and restores backups
BackupInputs == {<<"12.5", " food ", "2024-01-05", " a,b ">>}

InitBackup ==
    \E file \in {None} \cup {Saved(e) : e \in SeqsUpTo(Built(BackupInputs), MaxBackupLen)} :
        Started(file)

NextBackup == Start \/ DeleteExpense \/ BackupData \/ RestoreFromBackup \/ StoreRestore

SpecBackup == InitBackup /\ [][NextBackup]_vars

\* a start from a file whose rows are good or bad
LoadRowTexts ==
    {"2024-01-02,Food,5,ok\r\n",
     "2024-02-03,other,7.25,\"a,b\"\r\n",
     "2024-01-01,Food,abc,x\r\n",
     "2024-01-01,Food,0,x\r\n",
     "2024-01-01,Rent,1,x\r\n",
     "2024-13-01,Food,1,x\r\n",
     "2024-01-01,Food\r\n",
     "2024-01-01,Food,1\r\n",
     "\r\n",
     "2024-01-04,Food,2,y,extra\r\n"}

InitLoad ==
    \E rows \in SeqsUpTo(LoadRowTexts, MaxRows) :
        Started(Some(WriteRow(HEADER) \o Concat(rows, Len(rows))))

NextLoad == Start

SpecLoad == InitLoad /\ [][NextLoad]_vars

\* a start from a saved file, and reports about its collection
ReportInputs ==
    {<<"0.1", "Food", "2024-02-10", "Lunch">>,
     <<"0.1", "transport", "2024-2-15", "bus">>,
     <<"1.1", "food", "2024-03-01", "">>}

InitReport ==
    \E e \in SeqsUpTo(Built(ReportInputs), MaxReportLen) : Started(Saved(e))

NextReport == Summary \/ MonthlyReport \/ TopExpenses \/ SearchExpenses

SpecReport == InitReport /\ [][NextReport]_vars

(***************************************************************************)
(* The properties.                                                         *)
(***************************************************************************)
\* whether the handler that ran last printed message m
Printed(m) == \E i \in 1..Len(last.printed) : last.printed[i] = m

\* C1: round trip.  Every collection the program holds is made of expenses
\* the constructor accepted; saving it without an I/O failure and loading
\* the file written returns the same expenses in the same order.
C1_RoundTrip == load_expenses(Saved(expenses)) = expenses

\* what a row gave, if the constructor accepted it
Kept(e) == IF e.kind = "ok" THEN <<e.exp>> ELSE <<>>

\* the expenses of the rows from i on that pass the validation of the
\* constructor, each row judged alone
RECURSIVE ValidRows(_, _, _)
ValidRows(names, rows, i) ==
    IF i > Len(rows) THEN <<>>
    ELSE Kept(IF rows[i] = <<>> THEN [kind |-> "blank"]
              ELSE RowExpense(names, rows[i]))
         \o ValidRows(names, rows, i + 1)

ValidRecords(rows) == ValidRows(rows[1], rows, 2)

\* C2: load never aborts.  After a start from a file with the standard
\* header, the collection holds every row that passes validation, in file
\* order, whatever rows come before it; only the bad rows are skipped.
C2_LoadKeepsEveryValidRow ==
    (last.op = "start" /\ primary # None)
        => expenses = ValidRecords(ReadRows(primary[1]))

\* C3: a failed save leaves the collection alone.  When save_expenses
\* returns False in add_expense or delete_expense (it prints "Error saving
\* expenses"), the collection after the handler is the collection before
\* it, and the handler does not report success.
C3_FailedSaveKeepsCollection ==
    [][(last'.op \in {"add", "delete"} /\ Printed("Error saving expenses")')
          => /\ expenses' = expenses
             /\ ~Printed("Expense added successfully!")'
             /\ ~Printed("Expense deleted successfully!")']_vars

\* whether float() read no number from the text, or a number <= 0
NotPositive(p) == ~p.ok \/ p.neg \/ p.val = FZero

\* C4: amount invariant.  Every expense of the collection has an amount
\* above 0 (amounts are whole hundredths: rounded to 2 digits), and an
\* add_expense whose amount is not a number or is <= 0 adds nothing.
C4_AmountPositive ==
    /\ \A i \in 1..Len(expenses) : expenses[i].amount > 0
    /\ (last.op = "add" /\ NotPositive(ParseFloat(last.amount))) => ~last.changed

\* the day of the calendar a date names, as a number that orders the days
DayNumber(d) == d.year * 10000 + d.month * 100 + d.day

CalendarDay(date) == DayNumber(Strptime(date))

\* whether the expense is dated from the start date to the end date of the
\* search that ran last, by the calendar
InSearchedRange(e) ==
    /\ CalendarDay(last.start_date) <= CalendarDay(e.date)
    /\ CalendarDay(e.date) <= CalendarDay(last.end_date)

\* C5: a search by date range alone returns exactly the expenses whose
\* calendar date lies in the range, boundaries included, in collection order.
C5_DateRangeIsCalendarExact ==
    (/\ last.op = "search"
     /\ last.keyword = "" /\ last.category = ""
     /\ last.start_date # "" /\ last.end_date # "")
        => last.results = SelectSeq(expenses, InSearchedRange)

\* C6: get_top_expenses returns the empty sequence for every n <= 0.
C6_TopOfNoneIsEmpty ==
    (last.op = "top" /\ last.n <= 0) => last.results = <<>>

\* the expense shown at number c of the list delete_expense displays
Shown(exps, c) == exps[ByDateReverse(exps)[c]]

\* exps without its element at position k
Without(exps, k) ==
    [i \in 1..(Len(exps) - 1) |-> IF i < k THEN exps[i] ELSE exps[i + 1]]

\* C7, as the specification states it: a confirmed delete removes the first
\* element of the collection that is structurally equal to the expense the
\* user selected.
C7_RemovesFirstEqual ==
    [][(last'.op = "delete" /\ last'.changed)
          => \E k \in 1..Len(expenses) :
                 /\ expenses[k] = Shown(expenses, last'.choice)
                 /\ \A j \in 1..(k - 1) : expenses[j] # expenses[k]
                 /\ expenses' = Without(expenses, k)]_vars

\* C7, as the code has it: a confirmed delete removes exactly one element,
\* the expense the user selected: of the expenses structurally equal to it,
\* the one that stands among them in the collection where the selected one
\* stands among them in the list displayed.  The others keep their order.
C7_RemovesSelected ==
    [][(last'.op = "delete" /\ last'.changed)
          => \E k \in 1..Len(expenses) :
                 /\ expenses[k] = Shown(expenses, last'.choice)
                 /\ Cardinality({j \in 1..(k - 1) : expenses[j] = expenses[k]})
                        = Cardinality({c \in 1..(last'.choice - 1) :
                              Shown(expenses, c) = Shown(expenses, last'.choice)})
                 /\ expenses' = Without(expenses, k)]_vars

\* a delete has removed an expense that has a structurally equal one before
\* it in the collection
C7_DeletedLaterDuplicate ==
    last.op = "delete" /\ last.changed /\ last.later

\* C8: a backup that succeeds is a byte-identical copy of the primary file
\* at backup time and leaves the primary file as it was; a restore of that
\* backup, run right after it, leaves the primary file byte-identical to
\* what it was before the backup.
C8_BackupThenRestore ==
    /\ (last.op = "backup" /\ last.ok)
          => /\ last.name \in DOMAIN backups
             /\ Some(backups[last.name]) = last.file
             /\ primary = last.file
    /\ (last.op = "restore" /\ last.ok /\ last.follows = last.name)
          => primary = last.before

\* a restore of the backup just made has succeeded
C8_RestoredJustMade ==
    /\ last.op = "restore" /\ last.ok /\ last.follows = last.name
    /\ primary # None /\ primary # Some("")

\* C9: restore_from_backup with a name no backup has returns False and
\* leaves the primary file, every backup and the collection unchanged.
C9_RestoreOfMissingBackup ==
    [][(last'.op = "restore" /\ last'.called /\ last'.name \notin DOMAIN backups)
          => /\ ~last'.ok
             /\ primary' = primary
             /\ backups' = backups
             /\ expenses' = expenses]_vars

\* a restore was asked for a name no backup has, with a primary file and
\* backups on disk
C9_AskedMissingBackup ==
    /\ last.op = "restore" /\ last.called /\ last.name \notin DOMAIN backups
    /\ primary # None /\ backups # EmptyDir

\* the categories of the collection, each once, in the order they first occur
FirstSeen(exps) ==
    SelectSeq([i \in 1..Len(exps) |->
                   IF \E j \in 1..(i - 1) : exps[j].category = exps[i].category
                   THEN "" ELSE exps[i].category],
              LAMBDA c : c # "")

\* acc + the values of mapping m at the keys from i on, added in order
RECURSIVE SumValues(_, _, _, _)
SumValues(m, keys, i, acc) ==
    IF i > Len(keys) THEN acc
    ELSE SumValues(m, keys, i + 1, FAdd(acc, m[keys[i]]))

\* the amounts of the expenses of category c, added in order
CategorySum(exps, c) ==
    LET InCategory(e) == e.category = c
    IN  SumFrom(SelectSeq(exps, InCategory), 1, FZero)

\* what C10 says of summary r of collection exps
IsSummaryOf(r, exps) ==
    /\ r.count = Len(exps)
    /\ r.total = SumFrom(exps, 1, FZero)
    /\ r.average = (IF exps = <<>> THEN FZero ELSE FDivInt(r.total, r.count))
    /\ DOMAIN r.categories = {exps[i].category : i \in 1..Len(exps)}
    /\ \A c \in DOMAIN r.categories : r.categories[c] = CategorySum(exps, c)
    /\ SumValues(r.categories, FirstSeen(exps), 1, FZero) = r.total

\* C10: generate_summary returns the count, the total, the average (0 for
\* the empty collection) and a mapping from exactly the categories that
\* occur to the sum of their amounts, whose values sum to the total.
C10_SummaryAddsUp ==
    last.op = "summary" => IsSummaryOf(last.result, expenses)

\* the expenses of exps that stand before the one at position i when exps is
\* put in descending order of amount, equal amounts in collection order
AheadOf(exps, i) ==
    {j \in 1..Len(exps) :
        \/ exps[j].amount > exps[i].amount
        \/ exps[j].amount = exps[i].amount /\ j < i}

\* whether r holds the first min(n, Len(exps)) expenses of that order
IsTopOf(r, exps, n) ==
    /\ Len(r) = (IF n < Len(exps) THEN n ELSE Len(exps))
    /\ \A p \in 1..Len(r) :
           \E i \in 1..Len(exps) :
               r[p] = exps[i] /\ Cardinality(AheadOf(exps, i)) = p - 1

\* C11: for every n >= 1, get_top_expenses returns the first
\* min(n, len(expenses)) expenses of the collection sorted by amount
\* descending, equal amounts in their original order; all of them when n
\* exceeds the size; and the collection itself is left as it was.
C11_TopIsStablePrefix ==
    [][(last'.op = "top" /\ last'.n >= 1)
          => /\ IsTopOf(last'.results, expenses, last'.n)
             /\ expenses' = expenses]_vars

\* the top 2 of 3 expenses were asked for: the sort brought the second
\* expense before the first, and the first was kept rather than the third,
\* a different expense of the same amount
C11_TopWithTie ==
    /\ last.op = "top" /\ last.n = 2 /\ Len(expenses) = 3
    /\ last.results = <<expenses[2], expenses[1]>>
    /\ expenses[2].amount > expenses[1].amount
    /\ expenses[3].amount = expenses[1].amount
    /\ expenses[3] # expenses[1]

====
